---- MODULE Spec2Model ----
(***************************************************************************)
(* 2D prefix sum, maximum window sum (src/main.cpp and the interactive     *)
(* variant src/Project5_enhanced/main.cpp, whose three loops are the same  *)
(* statements).                                                            *)
(*                                                                         *)
(* The program is one sequential main(): it reads n and m, reads n points  *)
(* (x, y, v) and accumulates each into the static grid s[x+1][y+1], turns  *)
(* s in place into a prefix-sum table, scans every m x m window with the   *)
(* inclusion-exclusion formula and prints the largest sum (floored at 0).  *)
(*                                                                         *)
(* One action is one loop iteration (one point read and accumulated, one   *)
(* cell of the table built, one window evaluated) or one loop exit.        *)
(*                                                                         *)
(* Scaling.  The source fixes MAXC = 5005 for coordinates 0..5000.  The    *)
(* model keeps the difference (MAXC = MaxCoord + 5) and scales the largest *)
(* coordinate MaxCoord down.  The cells are C ints; with the source's      *)
(* constraints (n <= 10^4, v < 100, Project5_enhanced/main.cpp:136-140)    *)
(* every sum stays far below 2^31, so the model's integers do not wrap.    *)
(***************************************************************************)
EXTENDS Integers, Sequences, FiniteSets, Bags, TLC

(* ------------------------------ bounds --------------------------------- *)

\* Largest coordinate of a point (5000 in the source's constraints).
MaxCoord == 2

\* Largest number of points n.
MaxN == 2

(* -------------------------- program constants -------------------------- *)

\* Mutant of MAXC: one row and column per coordinate value, no margin.
MAXC_NoMargin == MaxCoord + 1

\* const int MAXC = 5005: five more than the largest coordinate.
MAXC == MaxCoord + 5

\* The subscripts of one dimension of s[MAXC][MAXC].
Range == 0 .. (MAXC - 1)

\* static int s[MAXC][MAXC]: zero-initialised static storage.
ZeroGrid == [a \in Range |-> [b \in Range |-> 0]]

(* ------------------------------- inputs -------------------------------- *)

\* Point values v offered on the input: one negative, one positive.
Values == {-1, 2}

\* Points inside the stated constraints 0 <= x, y <= MaxCoord.
ValidPoints == [x : 0 .. MaxCoord, y : 0 .. MaxCoord, v : Values]

\* Coordinates offered when the constraints are not assumed: just outside
\* and just inside each end of the valid range and of the array.
AnyCoords == {-2, -1, 0, MaxCoord, MaxCoord + 1, MAXC - 1}

\* Points whose coordinates may lie outside [0, MaxCoord].
AnyPoints == [x : AnyCoords, y : AnyCoords, v : {2}]

InRange(p) == p.x \in 0 .. MaxCoord /\ p.y \in 0 .. MaxCoord

VARIABLES
    pc,        \* position in main(): "ingest", "build", "scan", "done", "fault"
    n,         \* int n: number of points announced on the input
    m,         \* int m: window side
    i,         \* the loop variable i of the loop in progress
    j,         \* the loop variable j of the inner loop in progress
    s,         \* static int s[MAXC][MAXC]
    ans,       \* int ans
    points,    \* history: the bag of points read so far
    rawAccum,  \* history: s as it stood when the ingest loop ended
    wcount,    \* history: how often the build loop has written each cell
    access     \* history: the subscript pairs used on s by the last step

vars == <<pc, n, m, i, j, s, ans, points, rawAccum, wcount, access>>

(* ------------------------------ helpers -------------------------------- *)

\* std::max on ints.
Max(a, b) == IF a >= b THEN a ELSE b

\* Both subscripts within the declared bounds of s.
InGrid(a, b) == a \in Range /\ b \in Range

\* Row-major offset of s[a][b] in the storage of s.
Offset(a, b) == a * MAXC + b

\* The offset falls inside the MAXC * MAXC ints of s.
InArray(a, b) == Offset(a, b) >= 0 /\ Offset(a, b) < MAXC * MAXC

\* Read of s[a][b].  All reads the loops make are within bounds
\* (C10_MemorySafe below); a subscript pair outside the bounds reads the int at its
\* row-major offset when that lies in the array.
At(g, a, b) ==
    IF InGrid(a, b) THEN g[a][b]
    ELSE IF InArray(a, b) THEN g[Offset(a, b) \div MAXC][Offset(a, b) % MAXC]
    ELSE 0

(* ------------------------------- ingest -------------------------------- *)

\* Mutant of Accumulate: assignment instead of +=.
Overwrite(old, v) == v

\* s[x + 1][y + 1] += v: the new value of the cell.
Accumulate(old, v) == old + v

\* The subscripts the point p is accumulated at (shift by +1).
Shift(p) == <<p.x + 1, p.y + 1>>

\* One iteration of the ingest loop: read a point from P, accumulate it.
\* The write is unchecked.  With subscripts within bounds it updates that
\* cell.  Otherwise the behaviour is undefined: the store goes to the
\* row-major offset, which is another cell of s when the offset lies in
\* the array; when it lies outside, the store hits other memory (s is left
\* as it was) or the process faults.
Ingest(P) ==
    /\ pc = "ingest"
    /\ i < n
    /\ \E p \in P :
        LET a == Shift(p)[1]
            b == Shift(p)[2]
            o == Offset(a, b)
        IN  /\ points' = points (+) SetToBag({p})
            /\ access' = {<<a, b>>}
            /\ IF InGrid(a, b)
               THEN /\ s' = [s EXCEPT ![a][b] = Accumulate(@, p.v)]
                    /\ pc' = "ingest"
               ELSE IF InArray(a, b)
               THEN /\ s' = [s EXCEPT ![o \div MAXC][o % MAXC] = Accumulate(@, p.v)]
                    /\ pc' = "ingest"
               ELSE /\ s' = s
                    /\ pc' \in {"ingest", "fault"}
    /\ i' = i + 1
    /\ UNCHANGED <<n, m, j, ans, rawAccum, wcount>>

IngestValid == Ingest(ValidPoints)

IngestAny == Ingest(AnyPoints)

\* The ingest loop's condition i < n fails: the build loop starts at (1, 1).
IngestExit ==
    /\ pc = "ingest"
    /\ i >= n
    /\ pc' = "build"
    /\ i' = 1
    /\ j' = 1
    /\ rawAccum' = s
    /\ access' = {}
    /\ UNCHANGED <<n, m, s, ans, points, wcount>>

(* -------------------------------- build -------------------------------- *)

\* for (int i = 1; ...), for (int j = 1; ...): the first value of i and j.
BuildFirst == 1

\* Mutant of BuildLast: the loops stop one row and one column early.
BuildLastShort == MAXC - 2

\* ...; i < MAXC; ..., ...; j < MAXC; ...: the last value of i and of j.
BuildLast == MAXC - 1

\* Mutant of BuildValue: a prefix sum along the row only.
BuildValueRowOnly(g, a, b) == At(g, a, b) + At(g, a, b - 1)

\* Mutant of BuildValue: the corner term added instead of subtracted.
BuildValueCornerAdded(g, a, b) ==
    At(g, a, b) + (At(g, a - 1, b) + At(g, a, b - 1) + At(g, a - 1, b - 1))

\* s[i][j] += s[i - 1][j] + s[i][j - 1] - s[i - 1][j - 1]: the new value.
BuildValue(g, a, b) ==
    At(g, a, b) + (At(g, a - 1, b) + At(g, a, b - 1) - At(g, a - 1, b - 1))

\* The subscript pairs that statement uses.
BuildIdx(a, b) == {<<a, b>>, <<a - 1, b>>, <<a, b - 1>>, <<a - 1, b - 1>>}

\* The table after the build statement for cell (a, b).
BuildCell(g, a, b) ==
    IF InGrid(a, b) THEN [g EXCEPT ![a][b] = BuildValue(g, a, b)] ELSE g

\* One iteration of the inner build loop, with the inner loop's wrap to the
\* next row.
Build ==
    /\ pc = "build"
    /\ i <= BuildLast
    /\ s' = BuildCell(s, i, j)
    /\ wcount' = IF InGrid(i, j) THEN [wcount EXCEPT ![i][j] = @ + 1] ELSE wcount
    /\ access' = BuildIdx(i, j)
    /\ IF j < BuildLast
       THEN /\ j' = j + 1
            /\ i' = i
       ELSE /\ j' = BuildFirst
            /\ i' = i + 1
    /\ UNCHANGED <<pc, n, m, ans, points, rawAccum>>

RECURSIVE BuildFrom(_)
\* The build loops run to their end from the loop state st: the table
\* st.g and the loop variables st.i, st.j.
BuildFrom(st) ==
    IF st.i > BuildLast THEN st.g
    ELSE IF st.j < BuildLast
    THEN BuildFrom([g |-> BuildCell(st.g, st.i, st.j), i |-> st.i, j |-> st.j + 1])
    ELSE BuildFrom([g |-> BuildCell(st.g, st.i, st.j), i |-> st.i + 1, j |-> BuildFirst])

\* The whole build phase applied to the table g.
BuildAll(g) == BuildFrom([g |-> g, i |-> BuildFirst, j |-> BuildFirst])

\* Mutant of ScanFirst: the first window placement skipped.
ScanFirstSkipped(mm) == mm + 1

\* First value of i and of j in the scan loops: for (int i = m; ...).
ScanFirst(mm) == mm

\* ...; i < MAXC; ..., ...; j < MAXC; ...: the last value of i and of j.
ScanLast == MAXC - 1

\* The outer build loop's condition fails: int ans = 0 and the scan starts.
BuildExit ==
    /\ pc = "build"
    /\ i > BuildLast
    /\ pc' = IF ScanFirst(m) <= ScanLast THEN "scan" ELSE "done"
    /\ ans' = 0
    /\ i' = ScanFirst(m)
    /\ j' = ScanFirst(m)
    /\ access' = {}
    /\ UNCHANGED <<n, m, s, points, rawAccum, wcount>>

(* -------------------------------- scan --------------------------------- *)

\* Mutant of RectSum: the window taken one cell narrower (side m - 1).
RectSumNarrow(g, a, b, mm) ==
    At(g, a, b) - At(g, a - mm + 1, b) - At(g, a, b - mm + 1)
        + At(g, a - mm + 1, b - mm + 1)

\* Mutant of RectSum: the doubly subtracted corner not added back.
RectSumNoCorner(g, a, b, mm) ==
    At(g, a, b) - At(g, a - mm, b) - At(g, a, b - mm)

\* int sum = s[i][j] - s[i - m][j] - s[i][j - m] + s[i - m][j - m].
RectSum(g, a, b, mm) ==
    At(g, a, b) - At(g, a - mm, b) - At(g, a, b - mm) + At(g, a - mm, b - mm)

\* The subscript pairs that statement uses.
ScanIdx(a, b, mm) == {<<a, b>>, <<a - mm, b>>, <<a, b - mm>>, <<a - mm, b - mm>>}

\* One iteration of the inner scan loop: ans = max(ans, sum), with the
\* inner loop's wrap to the next row; after the last window the result is
\* printed.
Scan ==
    /\ pc = "scan"
    /\ i <= ScanLast
    /\ ans' = Max(ans, RectSum(s, i, j, m))
    /\ access' = ScanIdx(i, j, m)
    /\ IF j < ScanLast
       THEN /\ j' = j + 1
            /\ i' = i
            /\ pc' = "scan"
       ELSE /\ j' = ScanFirst(m)
            /\ i' = i + 1
            /\ pc' = IF i + 1 <= ScanLast THEN "scan" ELSE "done"
    /\ UNCHANGED <<n, m, s, points, rawAccum, wcount>>

RECURSIVE ScanFrom(_, _, _)
\* The scan loops for side mm run to their end on the table g from the
\* loop state st: the loop variables st.i, st.j and st.ans.
ScanFrom(g, mm, st) ==
    IF st.i > ScanLast THEN st.ans
    ELSE IF st.j < ScanLast
    THEN ScanFrom(g, mm, [i |-> st.i, j |-> st.j + 1,
                          ans |-> Max(st.ans, RectSum(g, st.i, st.j, mm))])
    ELSE ScanFrom(g, mm, [i |-> st.i + 1, j |-> ScanFirst(mm),
                          ans |-> Max(st.ans, RectSum(g, st.i, st.j, mm))])

\* The whole scan phase for side mm on the table g: the value printed.
ScanAll(g, mm) ==
    ScanFrom(g, mm, [i |-> ScanFirst(mm), j |-> ScanFirst(mm), ans |-> 0])

(* --------------------------- specifications ---------------------------- *)

Init ==
    /\ pc = "ingest"
    /\ n \in 0 .. MaxN
    /\ m \in 1 .. MaxCoord
    /\ i = 0
    /\ j = 0
    /\ s = ZeroGrid
    /\ ans = 0
    /\ points = EmptyBag
    /\ rawAccum = ZeroGrid
    /\ wcount = ZeroGrid
    /\ access = {}

\* Inputs within the stated constraints.
Next == IngestValid \/ IngestExit \/ Build \/ BuildExit \/ Scan

Spec == Init /\ [][Next]_vars

\* Inputs whose coordinates may be out of range.
NextAny == IngestAny \/ IngestExit \/ Build \/ BuildExit \/ Scan

SpecAny == Init /\ [][NextAny]_vars

(* ----------------------- reference definitions ------------------------- *)

\* The points read so far, without multiplicity.
PointSet == BagToSet(points)

RECURSIVE WeightOf(_, _)
\* Sum of the values of the points of the set S, each counted as often as
\* it occurs in the bag B.
WeightOf(S, B) ==
    IF S = {} THEN 0
    ELSE LET p == CHOOSE q \in S : TRUE
         IN  p.v * CopiesIn(p, B) + WeightOf(S \ {p}, B)

\* Direct enumeration: the sum of the values of all points of B whose
\* original coordinates lie in [x0, x1] x [y0, y1].
WeightIn(B, x0, x1, y0, y1) ==
    WeightOf({p \in BagToSet(B) : p.x >= x0 /\ p.x <= x1 /\ p.y >= y0 /\ p.y <= y1}, B)

\* The sum of the values of all points of B.
Total(B) == WeightOf(BagToSet(B), B)

\* The largest element of a non-empty finite set of integers.
SetMax(S) == CHOOSE a \in S : \A b \in S : a >= b

\* Brute force: the maximum of 0 and, over every placement (a, b) with
\* mm <= a, b <= the last grid index, the enumerated sum of the window
\* [a - mm, a - 1] x [b - mm, b - 1].
BruteForce(B, mm) ==
    SetMax({0} \cup {WeightIn(B, a - mm, a - 1, b - mm, b - 1) :
                        a \in mm .. (MAXC - 1), b \in mm .. (MAXC - 1)})

\* All values of the points read are non-negative.
NonNegative == \A p \in PointSet : p.v >= 0

(* -------------------------------- C1 ----------------------------------- *)

\* C1: for every input within the constraints, the value the program
\* prints after ingest, build and scan with side m equals the brute-force
\* maximum for m.
C1_MatchesBruteForce == pc = "done" => ans = BruteForce(points, m)

\* A finished run whose two points share one window but not one cell, so
\* the best window holds more than any single cell.
C1_Witness ==
    /\ pc = "done"
    /\ m = 2
    /\ ans = 4
    /\ Cardinality(PointSet) = 2

(* -------------------------------- C2 ----------------------------------- *)

\* During and after ingest, until the build loop writes its first cell.
BeforeBuild == pc = "ingest" \/ (pc = "build" /\ i = 1 /\ j = 1)

\* C2: after ingesting any points and before the build runs, s[x+1][y+1]
\* is the sum of the values of the points read at exactly (x, y), and every
\* other cell (row 0 and column 0 included) is 0.
C2_AccumulatesPerCoordinate ==
    BeforeBuild =>
        \A a \in Range, b \in Range :
            s[a][b] = WeightIn(points, a - 1, a - 1, b - 1, b - 1)

\* Ingest has ended with the same point read twice.
C2_Witness ==
    /\ pc = "build"
    /\ i = 1
    /\ j = 1
    /\ \E p \in PointSet : CopiesIn(p, points) = 2 /\ s[p.x + 1][p.y + 1] = 2 * p.v

(* -------------------------------- C7 ----------------------------------- *)

\* The build loop has completed.
Built == pc \in {"scan", "done"}

\* The build loop has just completed (no window evaluated yet), or the run
\* has ended.  The scan steps in between leave s as it is (C8).
BuildCompleted == (Built /\ access = {}) \/ pc = "done"

\* C7: after the build completes, every cell (a, b) with a, b >= 1
\* satisfies the recurrence over rawAccum, holds the sum of the values of
\* all points with x <= a - 1 and y <= b - 1, and row 0 and column 0 are
\* zero.
C7_PrefixTable ==
    BuildCompleted =>
        /\ \A a \in 1 .. (MAXC - 1), b \in 1 .. (MAXC - 1) :
            /\ s[a][b] = s[a - 1][b] + s[a][b - 1] - s[a - 1][b - 1] + rawAccum[a][b]
            /\ s[a][b] = WeightIn(points, 0, a - 1, 0, b - 1)
        /\ \A a \in Range : s[a][0] = 0 /\ s[0][a] = 0

\* The table is built from two points at different coordinates.
C7_Witness ==
    /\ Built
    /\ Cardinality(PointSet) = 2
    /\ s[MAXC - 1][MAXC - 1] = 4
    /\ s[1][1] = 0

(* -------------------------------- C3 ----------------------------------- *)

\* All points read lie in one window of side mm: their coordinates differ
\* by less than mm along each axis.
FitsWindow(mm) ==
    \A p \in PointSet, q \in PointSet : p.x - q.x < mm /\ p.y - q.y < mm

\* C3 as stated: for every input within the constraints, the scan with the
\* full-grid side m = MaxCoord prints the sum of the values of all points.
C3_FullWindowIsTotal ==
    (pc = "done" /\ m = MaxCoord) => ans = Total(points)

\* C3 amended: with m = MaxCoord the scan prints the sum of the values of
\* all points when no value is negative and the points' coordinates differ
\* by less than m along each axis (coordinates 0 and MaxCoord never share a
\* window of side MaxCoord, and the result is a maximum floored at 0).
C3_FullWindowIsTotalWhenFits ==
    (pc = "done" /\ m = MaxCoord /\ NonNegative /\ FitsWindow(m))
        => ans = Total(points)

\* A finished full-side scan over two positive points at different
\* coordinates that fit one window.
C3_Witness ==
    /\ pc = "done"
    /\ m = MaxCoord
    /\ NonNegative
    /\ FitsWindow(m)
    /\ Cardinality(PointSet) = 2
    /\ ans = 4

(* -------------------------------- C4 ----------------------------------- *)

\* The largest value of a single point read.
MaxSingleValue == SetMax({p.v : p \in PointSet})

\* The largest total accumulated at one coordinate, floored at 0.
MaxCoordinateTotal ==
    SetMax({0} \cup {WeightIn(points, p.x, p.x, p.y, p.y) : p \in PointSet})

\* C4 as stated: with n = 0 the result is 0 for every m; with m = 1 the
\* result is the largest single point value (0 if n = 0).
C4_SideOneIsMaxSingleValue ==
    pc = "done" =>
        /\ n = 0 => ans = 0
        /\ (m = 1 /\ n > 0) => ans = MaxSingleValue

\* C4 amended: with n = 0 the result is 0 for every m; with m = 1 the
\* result is the largest total accumulated at one coordinate, floored at 0
\* (a side-1 window captures all the points of one coordinate, which add
\* up, and no others).
C4_SideOneIsMaxCoordinateTotal ==
    pc = "done" =>
        /\ n = 0 => ans = 0
        /\ m = 1 => ans = MaxCoordinateTotal

\* A finished side-1 scan over the same positive point read twice.
C4_Witness ==
    /\ pc = "done"
    /\ m = 1
    /\ \E p \in PointSet : p.v = 2 /\ CopiesIn(p, points) = 2
    /\ ans = 4

(* -------------------------------- C5 ----------------------------------- *)

\* C5: when no point value is negative, the printed result is >= 0, it is
\* the scan of the built table for m, and the scan of the same table is
\* non-decreasing in the side: no smaller side gives more and no larger
\* side (up to MaxCoord) gives less.
C5_MonotoneInSide ==
    (pc = "done" /\ NonNegative) =>
        /\ ans >= 0
        /\ ans = ScanAll(s, m)
        /\ \A m1 \in 1 .. m : ScanAll(s, m1) <= ans
        /\ \A m2 \in m .. MaxCoord : ans <= ScanAll(s, m2)

\* A finished run on non-negative points where the larger side gives
\* strictly more than the smaller one.
C5_Witness ==
    /\ pc = "done"
    /\ NonNegative
    /\ m = 2
    /\ ans = 4
    /\ ScanAll(s, 1) = 2

(* -------------------------------- C6 ----------------------------------- *)

\* The grid holding the accumulated values of the in-range points only.
InRangeAccum ==
    [a \in Range |-> [b \in Range |->
        WeightOf({p \in PointSet : InRange(p) /\ p.x = a - 1 /\ p.y = b - 1}, points)]]

\* C6: once a point with x or y outside [0, MaxCoord] has been read, the
\* run has failed (no further step, no result) and no cell of the grid has
\* been written for it.
C6_OutOfRangeRejected ==
    (\E p \in PointSet : ~InRange(p)) =>
        /\ pc = "fault"
        /\ s = InRangeAccum

(* -------------------------------- C8 ----------------------------------- *)

FinalValue(a, b) ==
    IF a = 0 \/ b = 0 THEN 0 ELSE WeightIn(points, 0, a - 1, 0, b - 1)

\* The cells the build statement for (a, b) reads besides (a, b).
Neighbours(a, b) == {<<a - 1, b>>, <<a, b - 1>>, <<a - 1, b - 1>>}

\* wcount when every cell (a, b) with a, b >= 1 has been written once and
\* row 0 and column 0 never.
InnerOnce == [a \in Range |-> [b \in Range |-> IF a >= 1 /\ b >= 1 THEN 1 ELSE 0]]

\* The cell the build loop wrote in its last iteration, given that it is
\* now at (a, b).
LastWritten(a, b) == IF b > BuildFirst THEN <<a, b - 1>> ELSE <<a - 1, BuildLast>>

\* The build writes only once all n points are read and is complete before
\* any window is evaluated; every write is the first write of its cell (the
\* cell just written has been written once, the cell about to be written
\* never); and when a cell is about to be written its three neighbours
\* hold their final values, each already written unless it lies in row 0
\* or column 0.
BuildSequencing ==
    /\ pc = "ingest" => wcount = ZeroGrid
    /\ pc # "ingest" => BagCardinality(points) = n
    /\ pc \in {"ingest", "build"} => ans = 0
    /\ Built => wcount = InnerOnce
    /\ (pc = "build" /\ access # {}) =>
            wcount[LastWritten(i, j)[1]][LastWritten(i, j)[2]] = 1
    /\ (pc = "build" /\ i <= BuildLast) =>
            /\ wcount[i][j] = 0
            /\ \A c \in Neighbours(i, j) :
                /\ s[c[1]][c[2]] = FinalValue(c[1], c[2])
                /\ (c[1] >= 1 /\ c[2] >= 1) => wcount[c[1]][c[2]] = 1

\* C9 as stated: the sequencing above, and the build writes every grid
\* cell exactly once.
C9_WritesEveryCellOnce ==
    /\ BuildSequencing
    /\ Built => \A a \in Range, b \in Range : wcount[a][b] = 1

\* C9 amended: the sequencing above, and the build writes every cell
\* (a, b) with a, b >= 1 exactly once and never writes row 0 or column 0.
C9_WritesInnerCellsOnce ==
    /\ BuildSequencing
    /\ \A a \in Range : wcount[a][0] = 0 /\ wcount[0][a] = 0

\* The build is about to write a cell whose three neighbours have all been
\* written, with points on the grid.
C9_Witness ==
    /\ pc = "build"
    /\ i = 2
    /\ j = 2
    /\ wcount[1][1] = 1 /\ wcount[1][2] = 1 /\ wcount[2][1] = 1
    /\ s[1][2] = 1
    /\ BagCardinality(points) = 2

(* -------------------------------- C10 ---------------------------------- *)

\* C10: for inputs within the constraints, every subscript pair a step
\* uses on s lies within 0 .. MAXC - 1 in both dimensions.
C10_MemorySafe == \A c \in access : InGrid(c[1], c[2])

\* A finished run that has read a point at the largest coordinates and
\* whose last window touched the last cell of the grid.
C10_Witness ==
    /\ pc = "done"
    /\ <<MAXC - 1, MAXC - 1>> \in access
    /\ \E p \in PointSet : p.x = MaxCoord /\ p.y = MaxCoord

====
